---- MODULE Spec2Model ----
(***************************************************************************)
(* The presence heartbeat writer of src/Source/Services/Presence/          *)
(* presence_writer.cpp (the sleep-loop timer build, lines 50-70).          *)
(*                                                                         *)
(* Threads: one API caller (start_writer / stop_writer), the timer tasks   *)
(* spawned by start_writer, the remote writes of a flush cycle and the     *)
(* when_all continuations.  A step of the model is one access to shared    *)
(* state; what happens under m_lock and touches only lock-protected        *)
(* fields is folded into the step that takes the lock.                     *)
(***************************************************************************)
EXTENDS Integers, Sequences, FiniteSets

\* ---------------------------------------------------------------- bounds
MaxTimers  == 2     \* timer tasks alive at once
MaxOverdue == 1     \* a tick decrements the countdown while it is > -MaxOverdue

\* The users that register (xbox user ids; std::map iterates in key order),
\* the interval hints the service returns and the flush cycles that may be
\* alive at once (a launch waits for the slot).
Users  == {1, 2}
Hints  == {2}
Slots  == {1}
Timers == 1..MaxTimers

\* Line 218: the default interval, a constant declared outside this file;
\* what matters here is that it differs from the hints.
s_defaultHeartBeatDelayInMins == 1

\* ----------------------------------------------------------------- state
VARIABLES
    m_writerInProgress,      \* bool
    m_heartBeatDelayInMins,  \* int, the countdown
    m_isCallInProgress,      \* std::atomic<bool>, the single-flight guard
    m_presenceServices,      \* std::map<id, service>: ids in key order
    m_timerComplete,         \* bool, the stop signal of the sleep loop
    m_lock,                  \* 0 free, -1 the API caller, t > 0 timer task t
    cpc, cid,                \* API caller: position, xbox user id argument
    cfound,                  \* stop_writer: find() hit (line 140)
    cattempts,               \* set_presence(false) calls made by this stop_writer
    cthrew,                  \* ... and whether the call threw
    tpc, ttmp,               \* timer task t: position, loaded countdown
    cycles,                  \* the writeTasks / continuations of live flush cycles
    activeInTitle,           \* users registered whose set-inactive write has not
                             \* been issued since
    scen, starts, stops,     \* observer of the run: register 1, register 2,
                             \* deregister 1, deregister 2 from Stopped
    due                      \* observer of the cadence: the ticks still to
                             \* pass without a flush, h - 1 when a cycle gives
                             \* the countdown the hint h of its last result

vars == <<m_writerInProgress, m_heartBeatDelayInMins, m_isCallInProgress,
          m_presenceServices, m_timerComplete, m_lock, cpc, cid, cfound,
          cattempts, cthrew, tpc, ttmp, cycles, activeInTitle,
          scen, starts, stops, due>>

shared  == <<m_writerInProgress, m_heartBeatDelayInMins, m_isCallInProgress,
             m_presenceServices, m_timerComplete>>
callerv == <<cpc, cid, cfound, cattempts, cthrew>>
timerv  == <<tpc, ttmp>>
ghostv  == <<activeInTitle, scen, starts, stops, due>>

\* ------------------------------------------------------- the table (map)
Range(s) == {s[i] : i \in 1..Len(s)}

\* A find that compares the first key only.
find_first_key_only(id) ==
    IF m_presenceServices # <<>> /\ m_presenceServices[1] = id THEN 1 ELSE 0

\* m_presenceServices.find(id): the position of id, 0 for end()
find(id) ==
    IF \E i \in 1..Len(m_presenceServices) : m_presenceServices[i] = id
    THEN CHOOSE i \in 1..Len(m_presenceServices) : m_presenceServices[i] = id
    ELSE 0

\* m_presenceServices.insert(make_pair(id, ...)) at its place in key order
insert(id) ==
    LET lo == SelectSeq(m_presenceServices, LAMBDA x : x < id)
        hi == SelectSeq(m_presenceServices, LAMBDA x : x >= id)
    IN  lo \o <<id>> \o hi

\* m_presenceServices.erase(it)
erase(i) ==
    SubSeq(m_presenceServices, 1, i - 1)
        \o SubSeq(m_presenceServices, i + 1, Len(m_presenceServices))

\* ------------------------------------------------- results of the writes
Pending   == [kind |-> "pending", payload |-> 0]
Failed    == [kind |-> "err",     payload |-> 0]
Ok(h)     == [kind |-> "ok",      payload |-> h]
Outcomes  == {Ok(h) : h \in Hints} \cup {Failed}

NoCycle   == [users |-> <<>>, res |-> <<>>, cont |-> <<>>]
Live(c)   == cycles[c] # NoCycle
FreeSlots == {c \in Slots : ~Live(c)}

\* ----------------------------------------------------- observer of the run
\* The position reached in the run "register 1, register 2, deregister 1,
\* deregister 2" from Stopped (0..4), 5 once the calls made differ from it.
ScenAfter(op, id) ==
    IF      scen = 0 /\ op = "start" /\ id = 1 THEN 1
    ELSE IF scen = 1 /\ op = "start" /\ id = 2 THEN 2
    ELSE IF scen = 2 /\ op = "stop"  /\ id = 1 THEN 3
    ELSE IF scen = 3 /\ op = "stop"  /\ id = 2 THEN 4
    ELSE 5

Observe(op, id) ==
    /\ scen' = ScenAfter(op, id)
    /\ starts' = IF ScenAfter(op, id) = 5 THEN 0 ELSE starts
    /\ stops'  = IF ScenAfter(op, id) = 5 THEN 0 ELSE stops

CallerReturns ==
    /\ cpc' = "idle"
    /\ cid' = 0
    /\ cfound' = FALSE
    /\ cattempts' = 0
    /\ cthrew' = FALSE

\* ------------------------------------------------------------ start_writer
\* Lines 78-101: the critical section.  An id already present returns with
\* the lock held (line 99); the lock_guard releases it in start_writer_return.
start_writer(id) ==
    /\ cpc = "idle"
    /\ m_lock = 0
    /\ m_writerInProgress \/ \E t \in Timers : tpc[t] = "none"
    /\ m_writerInProgress' = TRUE
    /\ IF find(id) = 0
       THEN /\ m_presenceServices' = insert(id)
            /\ activeInTitle' = activeInTitle \cup {id}
            /\ cpc' = IF m_writerInProgress THEN "idle" ELSE "spawn"
            /\ cid' = IF m_writerInProgress THEN 0 ELSE id
            /\ UNCHANGED m_lock
       ELSE /\ cpc' = "exists"
            /\ cid' = id
            /\ m_lock' = -1
            /\ UNCHANGED <<m_presenceServices, activeInTitle>>
    /\ Observe("start", id)
    /\ UNCHANGED <<m_heartBeatDelayInMins, m_isCallInProgress, m_timerComplete,
                   cfound, cattempts, cthrew, timerv, cycles, due>>

\* Line 99: return.
start_writer_return ==
    /\ cpc = "exists"
    /\ m_lock' = 0
    /\ CallerReturns
    /\ UNCHANGED <<shared, timerv, cycles, ghostv>>

\* Lines 103-115: pplx::create_task of the timer task.
start_writer_spawn ==
    /\ cpc = "spawn"
    /\ LET t == CHOOSE x \in Timers :
                  tpc[x] = "none" /\ \A y \in Timers : tpc[y] = "none" => x <= y
       IN  tpc' = [tpc EXCEPT ![t] = "spawned"]
    /\ starts' = IF scen \in 1..4 THEN starts + 1 ELSE starts
    /\ CallerReturns
    /\ UNCHANGED <<shared, m_lock, ttmp, cycles,
                   activeInTitle, scen, stops, due>>

\* ------------------------------------------------------------- stop_writer
\* A set_inactive_in_title without the try/catch: the exception escapes.
set_inactive_uncaught(outcome) ==
    IF outcome = "throw" THEN "threw" ELSE "returned"

\* Lines 163-177: set_presence(false) returns or throws (outcome); the
\* catch (...) swallows the exception, so nothing escapes to stop_writer.
set_inactive_in_title(outcome) == "returned"

\* Lines 136-142: take the lock, test m_writerInProgress, find the user and
\* issue the set-inactive write.
stop_writer(id) ==
    /\ cpc = "idle"
    /\ m_lock = 0
    /\ Observe("stop", id)
    /\ IF ~m_writerInProgress
       THEN UNCHANGED <<m_lock, callerv, activeInTitle>>
       ELSE IF find(id) = 0
       THEN /\ m_lock' = -1
            /\ cpc' = "erase"
            /\ cid' = id
            /\ UNCHANGED <<cfound, cattempts, cthrew, activeInTitle>>
       ELSE \E outcome \in {"ok", "throw"} :
            /\ activeInTitle' = activeInTitle \ {id}
            /\ IF set_inactive_in_title(outcome) = "returned"
               THEN /\ m_lock' = -1
                    /\ cpc' = "erase"
                    /\ cid' = id
                    /\ cfound' = TRUE
                    /\ cattempts' = cattempts + 1
                    /\ cthrew' = (outcome = "throw")
               ELSE \* the exception leaves stop_writer, the guard unlocks
                    /\ UNCHANGED m_lock
                    /\ CallerReturns
    /\ UNCHANGED <<shared, timerv, cycles, due>>

\* A stop_writer that erases the entry and leaves m_writerInProgress and the
\* countdown alone when the table becomes empty.
stop_writer_erase_no_reset ==
    /\ cpc = "erase"
    /\ m_presenceServices' =
          IF cfound THEN erase(find(cid)) ELSE m_presenceServices
    /\ cpc' = "signal"
    /\ UNCHANGED <<m_writerInProgress, m_heartBeatDelayInMins,
                   m_isCallInProgress, m_timerComplete, m_lock, cid, cfound,
                   cattempts, cthrew, timerv, cycles, ghostv>>

\* A stop_writer that also cancels the flush cycles in flight that hold a
\* write of the user it removes.
stop_writer_erase_cancelling ==
    /\ cpc = "erase"
    /\ LET table == IF cfound THEN erase(find(cid)) ELSE m_presenceServices
       IN  /\ m_presenceServices' = table
           /\ m_writerInProgress' =
                 IF table = <<>> THEN FALSE ELSE m_writerInProgress
           /\ m_heartBeatDelayInMins' =
                 IF table = <<>> THEN 0 ELSE m_heartBeatDelayInMins
           /\ due' = IF table = <<>> THEN 0 ELSE due
    /\ cycles' = [c \in Slots |->
                    IF cfound /\ cid \in Range(cycles[c].users)
                    THEN NoCycle ELSE cycles[c]]
    /\ cpc' = "signal"
    /\ UNCHANGED <<m_isCallInProgress, m_timerComplete, m_lock, cid, cfound,
                   cattempts, cthrew, timerv,
                   activeInTitle, scen, starts, stops>>

\* Lines 143-150: erase the entry; on an empty table stop and reset.
stop_writer_erase ==
    /\ cpc = "erase"
    /\ LET table == IF cfound THEN erase(find(cid)) ELSE m_presenceServices
       IN  /\ m_presenceServices' = table
           /\ m_writerInProgress' =
                 IF table = <<>> THEN FALSE ELSE m_writerInProgress
           /\ m_heartBeatDelayInMins' =
                 IF table = <<>> THEN 0 ELSE m_heartBeatDelayInMins
           /\ due' = IF table = <<>> THEN 0 ELSE due
    /\ cpc' = "signal"
    /\ UNCHANGED <<m_isCallInProgress, m_timerComplete, m_lock, cid, cfound,
                   cattempts, cthrew, timerv, cycles,
                   activeInTitle, scen, starts, stops>>

\* Line 158, and the lock_guard's release at line 161.
stop_writer_signal ==
    /\ cpc = "signal"
    /\ m_timerComplete' = TRUE
    /\ m_lock' = 0
    /\ stops' = IF scen \in 1..4 THEN stops + 1 ELSE stops
    /\ CallerReturns
    /\ UNCHANGED <<m_writerInProgress, m_heartBeatDelayInMins,
                   m_isCallInProgress, m_presenceServices, timerv, cycles,
                   activeInTitle, scen, starts, due>>

\* -------------------------------------------------------------- start_timer
\* Line 54, the first statement of the spawned task.
start_timer(t) ==
    /\ tpc[t] = "spawned"
    /\ m_timerComplete' = FALSE
    /\ tpc' = [tpc EXCEPT ![t] = "top"]
    /\ UNCHANGED <<m_writerInProgress, m_heartBeatDelayInMins,
                   m_isCallInProgress, m_presenceServices, m_lock, callerv,
                   ttmp, cycles, ghostv>>

\* Lines 57-60: the test at the top of the loop.
start_timer_check(t) ==
    /\ tpc[t] = "top"
    /\ tpc' = [tpc EXCEPT ![t] = IF m_timerComplete THEN "none" ELSE "sleep"]
    /\ UNCHANGED <<shared, m_lock, callerv, ttmp, cycles, ghostv>>

\* Lines 62-66: the sleep of one minute ends, the test after it.
start_timer_sleep(t) ==
    /\ tpc[t] = "sleep"
    /\ tpc' = [tpc EXCEPT ![t] = IF m_timerComplete THEN "none" ELSE "trigger"]
    /\ UNCHANGED <<shared, m_lock, callerv, ttmp, cycles, ghostv>>

\* ----------------------------------------------------- handle_timer_trigger
\* Line 122, m_heartBeatDelayInMins--: the load.
handle_timer_trigger_load(t) ==
    /\ tpc[t] = "trigger"
    /\ m_heartBeatDelayInMins > -MaxOverdue
    /\ ttmp' = [ttmp EXCEPT ![t] = m_heartBeatDelayInMins]
    /\ tpc' = [tpc EXCEPT ![t] = "dec"]
    /\ UNCHANGED <<shared, m_lock, callerv, cycles, ghostv>>

\* Lines 122-128: the store of the decremented value and the test on it.
\* m_heartBeatDelayInMins is a plain int written by other threads: the test
\* of line 123 is made on the value just stored (kept in a register), or on
\* a value read again from memory (handle_timer_trigger_test).
handle_timer_trigger(t) ==
    /\ tpc[t] = "dec"
    /\ m_heartBeatDelayInMins' = ttmp[t] - 1
    /\ ttmp' = [ttmp EXCEPT ![t] = 0]
    /\ \E reread \in BOOLEAN :
          tpc' = [tpc EXCEPT ![t] = IF reread THEN "test"
                                   ELSE IF ttmp[t] - 1 > 0 THEN "top"
                                   ELSE "cas"]
    /\ due' = IF due > 0 THEN due - 1 ELSE 0
    /\ UNCHANGED <<m_writerInProgress, m_isCallInProgress, m_presenceServices,
                   m_timerComplete, m_lock, callerv, cycles,
                   activeInTitle, scen, starts, stops>>

\* Lines 123-128: the test on the countdown read again.
handle_timer_trigger_test(t) ==
    /\ tpc[t] = "test"
    /\ tpc' = [tpc EXCEPT ![t] =
                  IF m_heartBeatDelayInMins > 0 THEN "top" ELSE "cas"]
    /\ UNCHANGED <<shared, m_lock, callerv, ttmp, cycles, ghostv>>

\* ------------------------------------------------------ set_active_in_title
LowestFree == CHOOSE c \in FreeSlots : \A d \in FreeSlots : c <= d

\* Lines 182-183 and 224-227: the compare-and-swap on the guard.  The winner
\* goes on to the lock; the loser skips.
set_active_in_title(t) ==
    /\ tpc[t] = "cas"
    /\ tpc' = [tpc EXCEPT ![t] = IF m_isCallInProgress THEN "top" ELSE "lock"]
    /\ m_isCallInProgress' = TRUE
    /\ UNCHANGED <<m_writerInProgress, m_heartBeatDelayInMins,
                   m_presenceServices, m_timerComplete, m_lock, callerv,
                   ttmp, cycles, ghostv>>

\* A set_active_in_title that reads the table without taking m_lock.
set_active_unlocked == TRUE

\* Line 187: std::lock_guard on m_lock, held to the end of the loop.
set_active_acquire == m_lock = 0

\* Lines 190-222: for each entry of the table, in key order, the write of
\* that user is launched and a when_all(...).then(...) continuation over the
\* writes launched so far is attached (the when_all is inside the for loop).
writeTasks ==
    [users |-> m_presenceServices,
     res   |-> [k \in 1..Len(m_presenceServices) |-> Pending],
     cont  |-> [k \in 1..Len(m_presenceServices) |-> "wait"]]

\* Lines 187-223: the loop runs under the lock, which no step of another
\* thread can take meanwhile: one step.
set_active_launch(t) ==
    /\ tpc[t] = "lock"
    /\ set_active_acquire
    /\ m_presenceServices = <<>> \/ FreeSlots # {}
    /\ cycles' = IF m_presenceServices = <<>> THEN cycles
                 ELSE [cycles EXCEPT ![LowestFree] = writeTasks]
    /\ tpc' = [tpc EXCEPT ![t] = "top"]
    /\ UNCHANGED <<shared, m_lock, callerv, ttmp, ghostv>>

\* Line 199: when_all over writes 1..k completes once they all have.
Ready(cy, k) == \A j \in 1..k : cy.res[j] # Pending

\* A cycle is over when its writes have completed and its continuations have
\* run; its slot is then free again.
Finished(cy) ==
    \A k \in 1..Len(cy.users) : cy.res[k] # Pending /\ cy.cont[k] = "done"

Retire(cy) == IF Finished(cy) THEN NoCycle ELSE cy

\* A write whose failure cancels the writes of the cycle still outstanding.
write_complete_cancelling(c, k, outcome) ==
    /\ k \in 1..Len(cycles[c].users)
    /\ cycles[c].res[k] = Pending
    /\ cycles' = [cycles EXCEPT ![c].res =
                    [j \in DOMAIN @ |->
                        IF j = k THEN outcome
                        ELSE IF outcome = Failed /\ @[j] = Pending
                        THEN [kind |-> "cancelled", payload |-> 0]
                        ELSE @[j]]]
    /\ UNCHANGED <<shared, m_lock, callerv, timerv, ghostv>>

\* Line 195: the task of set_presence_helper(true, ...) for the k-th user of
\* cycle c completes: an xbox_live_result with a hint, or with an error.
write_complete(c, k, outcome) ==
    /\ k \in 1..Len(cycles[c].users)
    /\ cycles[c].res[k] = Pending
    /\ cycles' = [cycles EXCEPT ![c] = Retire([@ EXCEPT !.res[k] = outcome])]
    /\ UNCHANGED <<shared, m_lock, callerv, timerv, ghostv>>

\* Line 204: the k-th continuation of cycle c starts and releases the guard.
continuation_store(c, k) ==
    /\ k \in 1..Len(cycles[c].users)
    /\ cycles[c].cont[k] = "wait"
    /\ Ready(cycles[c], k)
    /\ m_isCallInProgress' = FALSE
    /\ cycles' = [cycles EXCEPT ![c].cont[k] = "stored"]
    /\ UNCHANGED <<m_writerInProgress, m_heartBeatDelayInMins,
                   m_presenceServices, m_timerComplete, m_lock, callerv,
                   timerv, ghostv>>

\* Lines 208-219: "only look at the last result", results.end() - 1 of the
\* k results this continuation was given.
heartBeat(cy, k) ==
    IF cy.res[k].kind = "ok" THEN cy.res[k].payload
    ELSE s_defaultHeartBeatDelayInMins

continuation_assign(c, k) ==
    /\ k \in 1..Len(cycles[c].users)
    /\ cycles[c].cont[k] = "stored"
    /\ m_heartBeatDelayInMins' = heartBeat(cycles[c], k)
    /\ due' = IF k = Len(cycles[c].users) /\ cycles[c].res[k].kind = "ok"
              THEN heartBeat(cycles[c], k) - 1
              ELSE 0
    /\ cycles' = [cycles EXCEPT ![c] = Retire([@ EXCEPT !.cont[k] = "done"])]
    /\ UNCHANGED <<m_writerInProgress, m_isCallInProgress, m_presenceServices,
                   m_timerComplete, m_lock, callerv, timerv,
                   activeInTitle, scen, starts, stops>>

\* ------------------------------------------------------------ specification
\* Lines 26-31: the constructor.  m_timerComplete has no initializer there;
\* it is written (line 54 or 158) before any read of it (lines 57, 63).
Init ==
    /\ m_writerInProgress = FALSE
    /\ m_heartBeatDelayInMins = 0
    /\ m_isCallInProgress = FALSE
    /\ m_presenceServices = <<>>
    /\ m_timerComplete = FALSE
    /\ m_lock = 0
    /\ cpc = "idle"
    /\ cid = 0
    /\ cfound = FALSE
    /\ cattempts = 0
    /\ cthrew = FALSE
    /\ tpc = [t \in Timers |-> "none"]
    /\ ttmp = [t \in Timers |-> 0]
    /\ cycles = [c \in Slots |-> NoCycle]
    /\ activeInTitle = {}
    /\ scen = 0
    /\ starts = 0
    /\ stops = 0
    /\ due = 0

Next ==
    \/ \E id \in Users : start_writer(id)
    \/ start_writer_return
    \/ start_writer_spawn
    \/ \E id \in Users : stop_writer(id)
    \/ stop_writer_erase
    \/ stop_writer_signal
    \/ \E t \in Timers : start_timer(t)
    \/ \E t \in Timers : start_timer_check(t)
    \/ \E t \in Timers : start_timer_sleep(t)
    \/ \E t \in Timers : handle_timer_trigger_load(t)
    \/ \E t \in Timers : handle_timer_trigger(t)
    \/ \E t \in Timers : handle_timer_trigger_test(t)
    \/ \E t \in Timers : set_active_in_title(t)
    \/ \E t \in Timers : set_active_launch(t)
    \/ \E c \in Slots, k \in Users, o \in Outcomes : write_complete(c, k, o)
    \/ \E c \in Slots, k \in Users : continuation_store(c, k)
    \/ \E c \in Slots, k \in Users : continuation_assign(c, k)

Spec == Init /\ [][Next]_vars

\* ------------------------------------------------------------------ claims
AlreadyPresent(id) ==
    \E i \in 1..Len(m_presenceServices) : m_presenceServices[i] = id

Outstanding(c) ==
    \E k \in 1..Len(cycles[c].users) : cycles[c].res[k] = Pending

\* C1: single-flight.  A cycle is in progress from the tick that wins the
\* compare-and-swap until its writes have completed; at most one is in
\* progress: no tick wins the guard, to launch writes of its own, while a
\* write of a cycle is outstanding.
C1_SingleFlight ==
    \A t \in Timers :
        tpc[t] = "lock" => \A c \in Slots : ~Outstanding(c)

\* C2: the in-flight flag is never false while a write of a cycle is
\* outstanding or while a continuation that has released it has not yet
\* assigned m_heartBeatDelayInMins.
C2_ReleaseAfterUpdate ==
    \A c \in Slots :
        (\E k \in 1..Len(cycles[c].users) :
            cycles[c].res[k] = Pending \/ cycles[c].cont[k] = "stored")
        => m_isCallInProgress

\* C3: the guard is never stuck.  Whenever m_isCallInProgress is true, the
\* cycle that holds it is still under way: its launch is still to come, or
\* one of its continuations can still run and release the guard.
GuardStuck ==
    /\ m_isCallInProgress
    /\ \A t \in Timers : tpc[t] # "lock"
    /\ \A c \in Slots : \A k \in 1..Len(cycles[c].users) :
          cycles[c].cont[k] # "wait"

C3_GuardReleased == ~GuardStuck

\* C4: stop_writer for a registered user that leaves other users registered
\* removes the entry only: it does not signal the periodic timer to stop.
C4_TimerKeptRunning ==
    [][ (cpc = "signal" /\ cpc' = "idle" /\ cfound /\ m_presenceServices # <<>>)
            => m_timerComplete' = m_timerComplete ]_vars

\* C5: lifecycle symmetry.  In the run register 1, register 2, deregister 1,
\* deregister 2 from Stopped the timer is started once, by the first call,
\* and stopped once, by the last: no stop has been issued after deregister 1.
C5_LifecycleSymmetry ==
    /\ (cpc = "idle" /\ scen \in {1, 2}) => (starts = 1 /\ stops = 0)
    /\ (cpc = "idle" /\ scen = 3) => (starts = 1 /\ stops = 0)
    /\ (cpc = "idle" /\ scen = 4) => (starts = 1 /\ stops = 1)

\* C6: idempotent registration.  start_writer for an id already in the table
\* changes neither the table, m_writerInProgress, the countdown nor the
\* timers, up to and including its return; the table never holds an id twice.
NoDuplicate(table) ==
    \A i, j \in 1..Len(table) : table[i] = table[j] => i = j

C6_IdempotentRegistration ==
    [][ /\ \A id \in Users :
              (AlreadyPresent(id) /\ start_writer(id))
                  => /\ cpc' = "exists"
                     /\ UNCHANGED <<m_presenceServices, m_writerInProgress,
                                    m_heartBeatDelayInMins, tpc>>
        /\ (cpc = "exists" /\ cpc' = "idle")
              => UNCHANGED <<m_presenceServices, m_writerInProgress,
                             m_heartBeatDelayInMins, tpc>>
        /\ NoDuplicate(m_presenceServices') ]_vars

C6_Witness ==
    /\ cpc = "exists"
    /\ AlreadyPresent(cid)
    /\ Len(m_presenceServices) = 2

\* C7: inactive-on-removal.  stop_writer for a registered user makes exactly
\* one set_presence(false) attempt, and whether it returns or throws the
\* call goes on to erase the entry: the user is out of the table when the
\* call returns.
C7_InactiveOnRemoval ==
    [][ /\ \A id \in Users :
              (AlreadyPresent(id) /\ stop_writer(id))
                  => /\ cpc' = "erase" /\ cid' = id /\ cfound'
                     /\ cattempts' = 1
        /\ (cpc \in {"erase", "signal"} /\ cfound)
              => /\ cattempts = 1
                 /\ cpc' # cpc => ~AlreadyPresent(cid)' ]_vars

C7_Witness ==
    /\ cpc = "signal"
    /\ cfound /\ cthrew /\ cattempts = 1
    /\ ~AlreadyPresent(cid)

C9_FailureIsolation ==
    [][ /\ \A t \in Timers :
              set_active_launch(t) =>
                  \/ m_presenceServices = <<>> /\ cycles' = cycles
                  \/ \E c \in Slots :
                        /\ ~Live(c)
                        /\ cycles'[c].users = m_presenceServices
                        /\ NoDuplicate(cycles'[c].users)
                        /\ \A k \in 1..Len(m_presenceServices) :
                              cycles'[c].res[k] = Pending
                        /\ \A d \in Slots \ {c} : cycles'[d] = cycles[d]
        /\ \A c \in Slots : \A k \in 1..Len(cycles[c].users) :
              cycles[c].res[k] = Pending =>
                  /\ \/ /\ k \in 1..Len(cycles'[c].users)
                        /\ cycles'[c].res[k] = Pending
                     \/ \E o \in Outcomes : write_complete(c, k, o)
                  /\ \A o \in Outcomes : ENABLED write_complete(c, k, o) ]_vars

C9_Witness ==
    \E c \in Slots :
        /\ Len(cycles[c].users) = 2
        /\ cycles[c].res[1] = Failed
        /\ cycles[c].res[2].kind = "ok"

\* C10: set-inactive happens-before removal.  A user leaves the table only
\* after the set-inactive write for that user has been issued, and a flush
\* launches active writes only for users whose set-inactive write has not
\* been issued since they registered.
C10_InactiveBeforeRemoval ==
    [][ /\ \A id \in Users :
              (AlreadyPresent(id) /\ ~AlreadyPresent(id)')
                  => id \notin activeInTitle
        /\ \A c \in Slots :
              (~Live(c) /\ cycles'[c] # NoCycle)
                  => Range(cycles'[c].users) \subseteq activeInTitle ]_vars

C10_Witness ==
    /\ scen = 3
    /\ cpc = "idle"
    /\ \E c \in Slots : cycles[c].users = <<2>>

\* C11: whenever neither start_writer nor stop_writer holds m_lock,
\* m_writerInProgress is true exactly when m_presenceServices is non-empty.
C11_RunningIffRegistered ==
    m_lock = 0 => (m_writerInProgress <=> m_presenceServices # <<>>)

C11_Witness ==
    /\ m_lock = 0 /\ cpc = "idle"
    /\ scen = 4
    /\ ~m_writerInProgress
    /\ m_presenceServices = <<>>

\* C12: at most one timer loop is active at any time: no two timer tasks are
\* inside the loop of start_timer (lines 55-69) at once, and no two are in
\* handle_timer_trigger at once.
LoopRunning(t) == tpc[t] \notin {"none", "spawned"}
InTrigger(t)   == tpc[t] \in {"trigger", "dec", "test", "cas", "lock"}

C12_SingleTimerLoop ==
    \A t1, t2 \in Timers :
        t1 # t2 => /\ ~(LoopRunning(t1) /\ LoopRunning(t2))
                   /\ ~(InTrigger(t1) /\ InTrigger(t2))

\* C13: stop on last deregistration.  Once stop_writer has returned from
\* removing the last user (table empty, writer Stopped), every timer task
\* still alive finds the stop signal set at its next test (lines 57, 63) and
\* ends: with nobody registered, nothing else ever sets m_timerComplete.
Stopped ==
    /\ ~m_writerInProgress
    /\ m_presenceServices = <<>>
    /\ cpc = "idle"

C13_StopOnLastDeregistration ==
    Stopped => (m_timerComplete \/ \A t \in Timers : tpc[t] = "none")

\* C14: acceptance errors leave the scheduler state unchanged.  Every step of
\* a stop_writer for an id that is not registered, of a stop_writer while
\* Stopped and of a start_writer for an id already registered leaves the
\* table, m_writerInProgress, the countdown, the stop signal and the timer
\* tasks as they were and issues no remote write.
SchedulerState ==
    <<m_presenceServices, m_writerInProgress, m_heartBeatDelayInMins,
      m_timerComplete, tpc, cycles, cattempts>>

C14_AcceptanceErrorsNoEffect ==
    [][ /\ \A id \in Users :
              (stop_writer(id) /\ (~m_writerInProgress \/ ~AlreadyPresent(id)))
                  => UNCHANGED SchedulerState
        /\ (cpc \in {"erase", "signal"} /\ ~cfound /\ cpc' # cpc)
              => UNCHANGED SchedulerState
        /\ \A id \in Users :
              (start_writer(id) /\ AlreadyPresent(id))
                  => UNCHANGED SchedulerState
        /\ (cpc = "exists" /\ cpc' # cpc)
              => UNCHANGED SchedulerState ]_vars

\* C15: automatic recovery.  While users are registered and no call is under
\* way, a later tick can still start a flush cycle: a timer task is alive to
\* tick, and the guard is free or will be released by a cycle under way.
C15_AutomaticRecovery ==
    (m_presenceServices # <<>> /\ cpc = "idle")
        => (~GuardStuck /\ \E t \in Timers : tpc[t] # "none")

\* C16: flush cadence.  When a cycle has given the countdown the hint h, no
\* tick of the h - 1 that follow goes on to the flush while the writer is
\* Running, and the cycle a tick starts covers every user registered by then.
C16_FlushCadence ==
    [][ /\ \A t \in Timers :
              (handle_timer_trigger(t) /\ m_writerInProgress /\ due > 0)
                  => tpc'[t] # "cas"
        /\ \A t \in Timers :
              (set_active_launch(t) /\ m_presenceServices # <<>>)
                  => \E c \in Slots :
                        ~Live(c) /\ cycles'[c].users = m_presenceServices ]_vars

\* C17: a deregistration does not change or cancel a cycle in flight.  No
\* step of start_writer or stop_writer changes a cycle; a live cycle keeps
\* its users; each of its writes stays outstanding until it completes;
\* at every step of start_writer or stop_writer each of its continuations
\* whose writes have completed is able to run, and when it runs it releases
\* the guard and assigns the countdown, whatever the table and
\* m_writerInProgress have become; and the next cycle launched holds exactly the users then in the
\* table.
C17_InFlightCycleUnaffected ==
    [][ /\ (cpc' # cpc \/ scen' # scen) => cycles' = cycles
        /\ \A c \in Slots :
              /\ (Live(c) /\ cycles'[c] # NoCycle)
                    => cycles'[c].users = cycles[c].users
              /\ \A k \in 1..Len(cycles[c].users) :
                    /\ cycles[c].res[k] = Pending
                          => \/ cycles'[c] = cycles[c]
                             \/ /\ cycles'[c] # NoCycle
                                /\ cycles'[c].res[k] \in Outcomes \cup {Pending}
                    /\ (/\ cpc' # cpc \/ scen' # scen
                        /\ cycles[c].cont[k] = "wait" /\ Ready(cycles[c], k))
                          => ENABLED continuation_store(c, k)
                    /\ (/\ cpc' # cpc \/ scen' # scen
                        /\ cycles[c].cont[k] = "stored")
                          => ENABLED continuation_assign(c, k)
                    /\ (/\ cycles[c].cont[k] = "wait"
                        /\ cycles'[c] # NoCycle
                        /\ cycles'[c].cont[k] = "stored")
                          => ~m_isCallInProgress'
                    /\ (/\ cycles[c].cont[k] = "stored"
                        /\ \/ cycles'[c] = NoCycle
                           \/ cycles'[c].cont[k] = "done")
                          => m_heartBeatDelayInMins' = heartBeat(cycles[c], k)
              /\ (~Live(c) /\ cycles'[c] # NoCycle)
                    => Range(cycles'[c].users) = Range(m_presenceServices) ]_vars

\* The last continuation of a cycle has released the guard, and is about to
\* assign the countdown, after the last user was deregistered.
C17_Witness ==
    /\ Stopped
    /\ ~m_isCallInProgress
    /\ \E c \in Slots :
          /\ Live(c)
          /\ cycles[c].cont[Len(cycles[c].users)] = "stored"

\* C18: the updates of the countdown never interleave.  The assignment of a
\* continuation (lines 211, 218) and the reset of stop_writer (line 149) do
\* not fall between the load and the store of a tick's decrement (line 122),
\* and that store puts one less than the value the countdown then has: no
\* update is lost.
C18_CountdownUnderLock ==
    [][ /\ (\/ \E c \in Slots, k \in Users : continuation_assign(c, k)
            \/ cpc = "erase" /\ cpc' = "signal" /\ m_presenceServices' = <<>>)
              => \A t \in Timers : tpc[t] # "dec"
        /\ \A t \in Timers :
              handle_timer_trigger(t)
                  => m_heartBeatDelayInMins' = m_heartBeatDelayInMins - 1 ]_vars

\* C19: the transition from Stopped to Running is atomic: the timer's
\* start-up (line 54) never overwrites a stop signal that a stop_writer
\* issued after the registration that created the timer task, i.e. it never
\* clears m_timerComplete in a writer that has been Stopped again.
C19_AtomicStart ==
    [][ \A t \in Timers :
          (start_timer(t) /\ ~m_writerInProgress /\ m_timerComplete)
              => m_timerComplete' ]_vars

\* C20: a flush attempt on an empty table does not leave the guard set.
\* When set_active_in_title has taken the guard and finds no user to write
\* for, the guard is false on its return, or a continuation is still to run
\* that will release it.
C20_EmptyFlushReleasesGuard ==
    [][ \A t \in Timers :
          (set_active_launch(t) /\ m_presenceServices = <<>>)
              => \/ ~m_isCallInProgress'
                 \/ \E c \in Slots : \E k \in 1..Len(cycles[c].users) :
                       cycles[c].cont[k] = "wait" ]_vars

\* C21: one completion continuation per cycle.  A continuation runs (the
\* guard is released, line 204) only when every write of its cycle has
\* completed, and no other continuation of that cycle has run before it.
C21_OneContinuation ==
    [][ \A c \in Slots : \A k \in 1..Len(cycles[c].users) :
          continuation_store(c, k)
              => /\ \A j \in 1..Len(cycles[c].users) :
                       cycles[c].res[j] # Pending
                 /\ \A j \in 1..Len(cycles[c].users) :
                       j # k => cycles[c].cont[j] = "wait" ]_vars

\* C22: the tick rule.  A tick leaves the countdown exactly one below what
\* it was and goes on to the flush exactly when the value it tests is <= 0;
\* no step of start_writer launches a write; and a tick that loses the
\* compare-and-swap leaves the countdown as it is, <= 0.
C22_TickRule ==
    [][ /\ \A t \in Timers :
              /\ handle_timer_trigger(t)
                    => m_heartBeatDelayInMins' = m_heartBeatDelayInMins - 1
              /\ (tpc[t] \in {"dec", "test"} /\ tpc'[t] \in {"top", "cas"})
                    => ((tpc'[t] = "cas") <=> (m_heartBeatDelayInMins' <= 0))
              /\ (set_active_in_title(t) /\ m_isCallInProgress)
                    => /\ m_heartBeatDelayInMins' = m_heartBeatDelayInMins
                       /\ m_heartBeatDelayInMins' <= 0
        /\ (\/ \E id \in Users : start_writer(id)
            \/ cpc \in {"spawn", "exists"} /\ cpc' # cpc)
              => cycles' = cycles ]_vars

\* C23: a Stopped writer with no flush cycle still completing has no
\* positive countdown left: the first tick after a re-registration goes on
\* to the flush.
C23_StoppedCountdownZero ==
    (Stopped /\ \A c \in Slots : ~Live(c)) => m_heartBeatDelayInMins <= 0

====
